---- MODULE Spec2Model ----
(***************************************************************************)
(* Model of the changelog generator (chinardankhara/tagline):              *)
(*   cli.py          sanitize_filename, trigger_deploy_workflow, generate  *)
(*   processor.py    format_commit_data_for_llm, process_repository        *)
(*   llm_handler.py  LLMHandler._safe_generate_content, generate_changelog *)
(*   github_client.py GitHubClient                                         *)
(*                                                                         *)
(* Text is modelled as a sequence of pieces.  A Python str built by        *)
(* concatenation is the concatenation of its pieces; a piece is either a   *)
(* literal of the source, an interpolated value, or one character (file    *)
(* names and patches are sequences of one-character strings, so that       *)
(* slicing, stripping and replacing act on characters as in the code).     *)
(***************************************************************************)
EXTENDS Integers, Sequences, FiniteSets, TLC

VARIABLES
    \* ---- sanitize_filename (cli.py) -----------------------------------
    sanPc,        \* "start" | "once" | "twice"
    name,         \* the argument of sanitize_filename
    sanitized,    \* sanitize_filename(name)
    resanitized   \* sanitize_filename(sanitize_filename(name))

sanVars == <<sanPc, name, sanitized, resanitized>>

VARIABLES
    \* ---- format_commit_data_for_llm (processor.py) --------------------
    fmtPc,          \* "start" | "done"
    commits,        \* the commits argument: a list of commit dicts
    files,          \* the files argument: a list of file dicts
    prompt_content  \* the returned text, as a sequence of pieces

fmtVars == <<fmtPc, commits, files, prompt_content>>

VARIABLES
    \* ---- LLMHandler.generate_changelog (llm_handler.py) ---------------
    llmPc,          \* "start" | "prompted" | "generated" | "done" | "raised"
    llm_call,       \* the arguments repo, from_ref, to_ref and the clock's date
    llm_commits,    \* the commits argument
    files_changed,  \* the files_changed argument
    template,       \* the text of templates/changelog_user_prompt.md
    response,       \* what model.generate_content does for this prompt
    user_prompt,    \* the formatted prompt sent to the model
    generated,      \* outcome of _safe_generate_content: text or exception
    changelog       \* the value generate_changelog returns

llmVars == <<llmPc, llm_call, llm_commits, files_changed, template, response,
             user_prompt, generated, changelog>>

VARIABLES
    \* ---- process_repository (processor.py) ----------------------------
    procPc,           \* "idle" | "start" | "constructed" | "resolved" | "fetched"
                      \* | "formatted" | "returned" | "raised"
    proc_args,        \* repo, token, since_tag, tag_range, target_branch
    base_ref,         \* Optional: None is <<>>, a value v is <<v>>
    head_ref,
    comparison_data,  \* Optional: the JSON of the compare endpoint
    llm_input_data,   \* format_commit_data_for_llm(commits, files)
    proc_result,      \* what the call returned or raised
    requests          \* the outbound calls made so far, in order

procVars == <<procPc, proc_args, base_ref, head_ref, comparison_data,
              llm_input_data, proc_result, requests>>

VARIABLES
    \* ---- generate (cli.py) --------------------------------------------
    pc,                  \* "idle" | "validate" | "prerun" | "processing" | "action"
                         \* | "local_processing" | "filename" | "write" | "done"
    args,                \* repo, from_tag, to_tag, output, token, local
    suggested_filename,  \* Optional
    changelog_content,   \* Optional
    output_filename,     \* Optional: the path the file is opened at
    files_written,       \* the files written, each a path and its content
    exit_code,           \* Optional: None while running, else the exit status
    proc_calls,          \* how many times process_repository was called
    dispatch_response    \* Optional: what the dispatch call was answered with

cliVars == <<pc, args, dispatch_response, suggested_filename, changelog_content,
             output_filename,
             files_written, exit_code, proc_calls>>

VARIABLES
    \* ---- GitHubClient (github_client.py), called on its own ----------
    ghPc,        \* "idle" | "new" | "ready" | "paging" | "done" | "rejected"
    gh_repo,     \* the repo argument of the constructor
    gh_token,    \* the token argument of the constructor
    client,      \* Optional: owner, repo_name and whether headers authorize
    gh_call,     \* the method called and its arguments
    endpoint,    \* get_tags: Optional, the endpoint of the next page
    params,      \* get_tags: Optional, the per_page parameter
    tags,        \* get_tags: the tags gathered so far
    gh_result,   \* what the method returned or raised
    http_log     \* the HTTP requests sent during the call, with their answers

ghVars == <<ghPc, gh_repo, gh_token, client, gh_call, endpoint, params, tags,
            gh_result, http_log>>

vars == <<sanVars, fmtVars, llmVars, procVars, cliVars, ghVars>>

\* the variables a function under check does not touch
exceptSanVars == <<fmtVars, llmVars, procVars, cliVars, ghVars>>
exceptFmtVars == <<sanVars, llmVars, procVars, cliVars, ghVars>>
exceptLlmVars == <<sanVars, fmtVars, procVars, cliVars, ghVars>>
exceptProcVars == <<sanVars, fmtVars, llmVars, ghVars>>
exceptCliVars == <<sanVars, fmtVars, llmVars, ghVars>>
exceptGhVars == <<sanVars, fmtVars, llmVars, procVars, cliVars>>

(***************************************************************************)
(* Each specification below runs one function (or the whole command) on    *)
(* its inputs; the variables of the other functions stay at these values.  *)
(***************************************************************************)
NoName == <<"?">>   \* sanitize_filename not yet called
NoOutcome == [ok |-> FALSE, text |-> <<>>, error |-> <<>>]

IdleSanitize ==
    /\ sanPc = "idle"
    /\ name = <<>>
    /\ sanitized = NoName
    /\ resanitized = NoName

IdleFormat ==
    /\ fmtPc = "idle"
    /\ commits = <<>>
    /\ files = <<>>
    /\ prompt_content = <<>>

IdleLLM ==
    /\ llmPc = "idle"
    /\ llm_call = [repo |-> ""]
    /\ llm_commits = <<>>
    /\ files_changed = <<>>
    /\ template = <<>>
    /\ response = [raises |-> FALSE]
    /\ user_prompt = <<>>
    /\ generated = NoOutcome
    /\ changelog = <<>>

\* Optional[...] values: None, or Some(v)
None == <<>>
Some(v) == <<v>>

NoResult == [kind |-> "pending", content |-> <<>>, suggested |-> None, error |-> ""]

IdleProc ==
    /\ procPc = "idle"
    /\ proc_args = [repo |-> <<>>]
    /\ base_ref = None
    /\ head_ref = None
    /\ comparison_data = None
    /\ llm_input_data = <<>>
    /\ proc_result = NoResult
    /\ requests = <<>>

IdleCli ==
    /\ pc = "idle"
    /\ args = [repo |-> <<>>]
    /\ suggested_filename = None
    /\ changelog_content = None
    /\ output_filename = None
    /\ files_written = <<>>
    /\ exit_code = None
    /\ proc_calls = 0
    /\ dispatch_response = None

NoClientResult == [kind |-> "pending", value |-> None, error |-> None]
NoCall == [op |-> "", base |-> <<>>, head |-> <<>>]

IdleClient ==
    /\ ghPc = "idle"
    /\ gh_repo = <<>>
    /\ gh_token = None
    /\ client = None
    /\ gh_call = NoCall
    /\ endpoint = None
    /\ params = None
    /\ tags = <<>>
    /\ gh_result = NoClientResult
    /\ http_log = <<>>

IdleExceptSanitize == IdleFormat /\ IdleLLM /\ IdleProc /\ IdleCli /\ IdleClient
IdleExceptFormat == IdleSanitize /\ IdleLLM /\ IdleProc /\ IdleCli /\ IdleClient
IdleExceptLLM == IdleSanitize /\ IdleFormat /\ IdleProc /\ IdleCli /\ IdleClient
IdleExceptProc == IdleSanitize /\ IdleFormat /\ IdleLLM /\ IdleClient
IdleExceptCli == IdleSanitize /\ IdleFormat /\ IdleLLM /\ IdleClient
IdleExceptClient == IdleSanitize /\ IdleFormat /\ IdleLLM /\ IdleProc /\ IdleCli

(***************************************************************************)
(* Bounds                                                                  *)
(***************************************************************************)
MaxNameLen == 3
MaxCommits == 2      \* longest commit list
MaxSmallFiles == 2   \* file lists of 0..MaxSmallFiles entries, and the ones around the cap
MaxExtraFiles == 2   \* up to MAX_FILES_IN_PROMPT + MaxExtraFiles files
MaxExtraPatch == 2   \* patches of up to MAX_PATCH_LENGTH + MaxExtraPatch characters
MaxChangedFiles == 2 \* longest files_changed list given to generate_changelog
MaxPages == 2        \* most pages of tags a repository answers with

(***************************************************************************)
(* Character helpers                                                       *)
(***************************************************************************)
\* str.replace(old, new) for one-character old/new
Replace(s, old, new) == [i \in 1..Len(s) |-> IF s[i] = old THEN new ELSE s[i]]

\* re.sub(r'[...]', '', s): drop every character of the class
RemoveChars(s, class) == SelectSeq(s, LAMBDA c : c \notin class)

RECURSIVE LStrip(_, _)
LStrip(s, chars) ==
    IF s # <<>> /\ Head(s) \in chars THEN LStrip(Tail(s), chars) ELSE s

RECURSIVE RStrip(_, _)
RStrip(s, chars) ==
    IF s # <<>> /\ s[Len(s)] \in chars
    THEN RStrip(SubSeq(s, 1, Len(s) - 1), chars)
    ELSE s

\* str.strip(chars)
Strip(s, chars) == RStrip(LStrip(s, chars), chars)

(***************************************************************************)
(* cli.py: sanitize_filename                                               *)
(***************************************************************************)
\* the character class of re.sub(r'[<>:"\\|?*]', '', name)
UnsafeChars == {"<", ">", ":", "\"", "\\", "|", "?", "*"}

\* the argument of name.strip('. ')
StripChars == {".", " "}

\* the literal "invalid_filename"
InvalidFilename ==
    <<"i","n","v","a","l","i","d","_","f","i","l","e","n","a","m","e">>

\* what Python's str.isspace() accepts among the characters of the model
Whitespace == {" ", "\t", "\n", "\r"}

\* faulty variant: strips before the unsafe characters are removed
sanitize_filename_StripFirst(s) ==
    LET a == Replace(s, "/", "-")
        b == Strip(a, StripChars)
        c == RemoveChars(b, UnsafeChars)
    IN  IF c = <<>> \/ c = <<".">> THEN InvalidFilename ELSE c

sanitize_filename(s) ==
    LET a == Replace(s, "/", "-")
        b == RemoveChars(a, UnsafeChars)
        c == Strip(b, StripChars)
    IN  IF c = <<>> \/ c = <<".">> THEN InvalidFilename ELSE c

(***************************************************************************)
(* Inputs of sanitize_filename: every string of at most MaxNameLen         *)
(* characters over NameChars.                                              *)
(***************************************************************************)
NameChars == {"a", ".", " ", "/", ":", "*", "\t"}

RECURSIVE StringsUpTo(_, _)
StringsUpTo(chars, n) ==
    IF n = 0 THEN {<<>>}
    ELSE LET shorter == StringsUpTo(chars, n - 1)
         IN  shorter \cup {Append(s, c) : s \in shorter, c \in chars}

Names == StringsUpTo(NameChars, MaxNameLen)

InitSanitize ==
    /\ sanPc = "start"
    /\ name \in Names
    /\ sanitized = NoName
    /\ resanitized = NoName
    /\ IdleExceptSanitize

\* name = sanitize_filename(name)
Sanitize ==
    /\ sanPc = "start"
    /\ sanitized' = sanitize_filename(name)
    /\ sanPc' = "once"
    /\ UNCHANGED <<name, resanitized, exceptSanVars>>

\* sanitize_filename applied to its own result
Resanitize ==
    /\ sanPc = "once"
    /\ resanitized' = sanitize_filename(sanitized)
    /\ sanPc' = "twice"
    /\ UNCHANGED <<name, sanitized, exceptSanVars>>

NextSanitize == Sanitize \/ Resanitize

SpecSanitize == InitSanitize /\ [][NextSanitize]_vars

(***************************************************************************)
(* processor.py: format_commit_data_for_llm                                *)
(***************************************************************************)
MAX_FILES_IN_PROMPT == 50
MAX_PATCH_LENGTH == 1000

\* dict.get(key, default)
Get(d, key, default) == IF key \in DOMAIN d THEN d[key] ELSE default

\* s[:n]
Take(s, n) == SubSeq(s, 1, IF Len(s) < n THEN Len(s) ELSE n)

\* str.split(sep) for a one-character separator: '' splits to ['']
RECURSIVE Split(_, _)
Split(s, sep) ==
    IF \A i \in 1..Len(s) : s[i] # sep THEN <<s>>
    ELSE LET k == CHOOSE i \in 1..Len(s) :
                      s[i] = sep /\ \A j \in 1..(i - 1) : s[j] # sep
         IN  <<SubSeq(s, 1, k - 1)>> \o Split(SubSeq(s, k + 1, Len(s)), sep)

\* the literals of the function
CommitsHeader == "Relevant Commits:\n"
NoCommitsLine ==
    "- No individual commits found in range (perhaps a single merge commit?).\n"
FilesHeader == "\nChanged Files Summary (Patches/Diffs):\n"
NoFilesLine == "- No file changes detected in this range.\n"
OmitPrefix == "- ... (truncated "
OmitSuffix == " more files)\n"
\* the code fence of line 65; ~ stands for the backquote character
FenceOpen == "\n~~~diff\n"
FenceClose == "\n~~~\n"
TruncMarker == "\n... (diff truncated)"
NoDiffNote == " (No diff provided)\n"

\* lines 38-39: one indented line per line of the message
RECURSIVE RenderLines(_)
RenderLines(lines) ==
    IF lines = <<>> THEN <<>>
    ELSE (<<"    ">> \o Head(lines) \o <<"\n">>) \o RenderLines(Tail(lines))

\* lines 29-40: one commit of the loop
RenderCommit(commit) ==
    LET sha_short == Take(Get(commit, "sha", <<"N/A">>), 7)
        commit_details == Get(commit, "commit", <<>>)
        message == Strip(Get(commit_details, "message", <<"No commit message">>),
                         Whitespace)
        author_info == Get(commit_details, "author", <<>>)
        author == Get(author_info, "name", "Unknown Author")
        date == Get(author_info, "date", "Unknown Date")
    IN  (<<"- ">> \o sha_short \o <<" by ", author, " (", date, "):\n">>)
        \o RenderLines(Split(message, "\n"))
        \o <<"\n">>

RECURSIVE RenderCommits(_)
RenderCommits(cs) ==
    IF cs = <<>> THEN <<>> ELSE RenderCommit(Head(cs)) \o RenderCommits(Tail(cs))

\* faulty variant: the patch is cut without the marker
RenderFile_SilentCut(file_data) ==
    LET patch == Get(file_data, "patch", <<>>)
    IN  <<"- ", Get(file_data, "filename", "Unknown file"), " (",
          Get(file_data, "status", "unknown"), ")">>
        \o (IF patch # <<>>
            THEN <<FenceOpen>> \o Take(patch, MAX_PATCH_LENGTH) \o <<FenceClose>>
            ELSE <<NoDiffNote>>)
        \o <<"\n">>

\* faulty variant: a patch of exactly MAX_PATCH_LENGTH characters is marked
\* as truncated
RenderFile_MarksAtLimit(file_data) ==
    LET patch == Get(file_data, "patch", <<>>)
    IN  <<"- ", Get(file_data, "filename", "Unknown file"), " (",
          Get(file_data, "status", "unknown"), ")">>
        \o (IF patch # <<>>
            THEN <<FenceOpen>> \o Take(patch, MAX_PATCH_LENGTH)
                 \o (IF Len(patch) >= MAX_PATCH_LENGTH THEN <<TruncMarker>> ELSE <<>>)
                 \o <<FenceClose>>
            ELSE <<NoDiffNote>>)
        \o <<"\n">>

\* lines 55-68: one file of the loop
RenderFile(file_data) ==
    LET filename == Get(file_data, "filename", "Unknown file")
        status == Get(file_data, "status", "unknown")
        patch == Get(file_data, "patch", <<>>)
        truncated_patch ==
            Take(patch, MAX_PATCH_LENGTH)
            \o (IF Len(patch) > MAX_PATCH_LENGTH THEN <<TruncMarker>> ELSE <<>>)
    IN  <<"- ", filename, " (", status, ")">>
        \o (IF patch # <<>>
            THEN <<FenceOpen>> \o truncated_patch \o <<FenceClose>>
            ELSE <<NoDiffNote>>)
        \o <<"\n">>

\* faulty variant: the cap is tested after the file is rendered (one file too many)
RECURSIVE RenderFiles_OffByOne(_, _, _)
RenderFiles_OffByOne(fs, i, included_files) ==
    IF i > Len(fs) THEN <<>>
    ELSE IF included_files > MAX_FILES_IN_PROMPT
         THEN <<OmitPrefix, ToString(Len(fs) - included_files), OmitSuffix>>
         ELSE RenderFile(fs[i]) \o RenderFiles_OffByOne(fs, i + 1, included_files + 1)

\* lines 50-69: the loop over files, at file i with included_files rendered
RECURSIVE RenderFiles(_, _, _)
RenderFiles(fs, i, included_files) ==
    IF i > Len(fs) THEN <<>>
    ELSE IF included_files >= MAX_FILES_IN_PROMPT
         THEN <<OmitPrefix, ToString(Len(fs) - included_files), OmitSuffix>>
         ELSE RenderFile(fs[i]) \o RenderFiles(fs, i + 1, included_files + 1)

\* faulty variant: an empty commit list leaves the section empty
CommitsSection_NoPlaceholder(cs) == RenderCommits(cs)

\* lines 25-40
CommitsSection(cs) ==
    IF cs = <<>> THEN <<NoCommitsLine>> ELSE RenderCommits(cs)

\* lines 43-69
FilesSection(fs) ==
    IF fs = <<>> THEN <<NoFilesLine>> ELSE RenderFiles(fs, 1, 0)

format_commit_data_for_llm(cs, fs) ==
    <<CommitsHeader>> \o CommitsSection(cs) \o <<FilesHeader>> \o FilesSection(fs)

(***************************************************************************)
(* Inputs of format_commit_data_for_llm                                    *)
(***************************************************************************)
\* commit dicts as the compare endpoint returns them; keys may be missing
CommitPool ==
    { [sha |-> <<"a","1","b","2","c","3","d","4","e">>,
       commit |-> [message |-> <<" ","f","i","x","\n","\n","m","o","r","e","\n">>,
                   author |-> [name |-> "ann", date |-> "2024-01-01"]]],
      [sha |-> <<"b","e","e","f">>,
       commit |-> [message |-> <<>>, author |-> [name |-> "bob"]]],
      [commit |-> [author |-> [date |-> "2024-02-02"]]] }

RECURSIVE ListsUpTo(_, _)
ListsUpTo(pool, n) ==
    IF n = 0 THEN {<<>>}
    ELSE LET shorter == ListsUpTo(pool, n - 1)
         IN  shorter \cup {Append(l, x) : l \in shorter, x \in pool}

CommitLists == ListsUpTo(CommitPool, MaxCommits)

\* the characters of a patch, by position
PatchChar(j) == <<"+", "-", "x">>[(j % 3) + 1]
PatchOfLen(n) == [j \in 1..n |-> PatchChar(j)]

\* file i of a list whose file `big` carries a patch of L characters; the
\* other files have no patch key, an empty patch or a short patch in turn
FileAt(i, big, L) ==
    LET base == IF i % 4 = 3
                THEN [status |-> "modified"]
                ELSE [filename |-> "f" \o ToString(i),
                      status |-> IF i % 2 = 0 THEN "added" ELSE "modified"]
    IN  IF i = big THEN [k \in DOMAIN base \cup {"patch"} |->
                            IF k = "patch" THEN PatchOfLen(L) ELSE base[k]]
        ELSE IF i % 3 = 0 THEN base
        ELSE [k \in DOMAIN base \cup {"patch"} |->
                 IF k = "patch" THEN PatchOfLen((i % 3) - 1) ELSE base[k]]

FileList(n, big, L) == [i \in 1..n |-> FileAt(i, big, L)]

FileCounts ==
    (0..MaxSmallFiles)
    \cup ((MAX_FILES_IN_PROMPT - 1)..(MAX_FILES_IN_PROMPT + MaxExtraFiles))

PatchLens ==
    (0..1) \cup ((MAX_PATCH_LENGTH - 1)..(MAX_PATCH_LENGTH + MaxExtraPatch))

FileLists ==
    {FileList(n, big, L) : n \in FileCounts, big \in {1, 2, MAX_FILES_IN_PROMPT},
                           L \in PatchLens}

InitFormat ==
    /\ fmtPc = "start"
    /\ commits \in CommitLists
    /\ files \in FileLists
    /\ prompt_content = <<>>
    /\ IdleExceptFormat

\* llm_input_data = format_commit_data_for_llm(commits, files)
Format ==
    /\ fmtPc = "start"
    /\ prompt_content' = format_commit_data_for_llm(commits, files)
    /\ fmtPc' = "done"
    /\ UNCHANGED <<commits, files, exceptFmtVars>>

NextFormat == Format

SpecFormat == InitFormat /\ [][NextFormat]_vars

(***************************************************************************)
(* llm_handler.py: LLMHandler._safe_generate_content, generate_changelog   *)
(***************************************************************************)
\* sep.join(parts)
RECURSIVE Join(_, _)
Join(sep, parts) ==
    IF parts = <<>> THEN <<>>
    ELSE IF Len(parts) = 1 THEN parts[1]
    ELSE parts[1] \o <<sep>> \o Join(sep, Tail(parts))

\* lines 117-123: one line per commit
CleanedCommit(commit) ==
    LET sha_short == Take(Get(commit, "sha", <<>>), 7)
        commit_details == Get(commit, "commit", <<>>)
        message == Strip(Get(commit_details, "message", <<>>), Whitespace)
        author == Get(Get(commit_details, "author", <<>>), "name", "")
        date == Get(Get(commit_details, "author", <<>>), "date", "")
    IN  <<"- ">> \o sha_short \o <<": ">> \o message
        \o <<" (by ", author, " on ", date, ")">>

\* line 125
CommitDetails(cs) == Join("\n", [i \in 1..Len(cs) |-> CleanedCommit(cs[i])])

\* lines 128-132
FileChanges(fs) ==
    Join("\n",
         [i \in 1..Len(fs) |->
            <<"- ", Get(fs[i], "filename", ""), ": ", Get(fs[i], "status", ""),
              " (", ToString(Get(fs[i], "additions", 0)), " additions, ",
              ToString(Get(fs[i], "deletions", 0)), " deletions)">>])

\* str.format(**values) on a template given as its segments: literal text
\* (field = "") or a replacement field {field}
RECURSIVE FormatTemplate(_, _)
FormatTemplate(tpl, values) ==
    IF tpl = <<>> THEN <<>>
    ELSE (IF Head(tpl).field = "" THEN <<Head(tpl).lit>> ELSE values[Head(tpl).field])
         \o FormatTemplate(Tail(tpl), values)

\* lines 139-146
UserPrompt(tpl, call, cs, fs) ==
    FormatTemplate(tpl,
        [repo |-> <<call.repo>>, from_ref |-> <<call.from_ref>>,
         to_ref |-> <<call.to_ref>>, current_date |-> <<call.current_date>>,
         commit_details |-> CommitDetails(cs), file_changes |-> FileChanges(fs)])

Returned(text) == [ok |-> TRUE, text |-> text, error |-> <<>>]
Raised(error) == [ok |-> FALSE, text |-> <<>>, error |-> error]

\* faulty variant: an empty text is handed back as a result
safe_generate_content_EmptyIsSuccess(r) ==
    IF r.raises THEN Raised(<<r.error>>)
    ELSE IF ~r.candidates
    THEN IF r.block_reason # ""
         THEN Raised(<<"LLM Response Blocked: ", r.block_reason>>)
         ELSE Raised(<<"Empty or invalid response structure from LLM. Inner error: ",
                       IF r.text_error # "" THEN r.text_error
                       ELSE "Empty response from LLM (No candidates returned, but no block reason)">>)
    ELSE IF r.text_error # "" THEN Raised(<<r.text_error>>)
    ELSE Returned(Strip(r.text, Whitespace))

\* lines 72-103: the text returned, or str(e) of the exception raised
safe_generate_content(r) ==
    IF r.raises THEN Raised(<<r.error>>)
    ELSE IF ~r.candidates
    THEN IF r.block_reason # ""
         THEN Raised(<<"LLM Response Blocked: ", r.block_reason>>)
         ELSE Raised(<<"Empty or invalid response structure from LLM. Inner error: ",
                       IF r.text_error # "" THEN r.text_error
                       ELSE "Empty response from LLM (No candidates returned, but no block reason)">>)
    ELSE IF r.text_error # "" THEN Raised(<<r.text_error>>)
    ELSE LET generated_text == Strip(r.text, Whitespace)
         IN  IF generated_text = <<>>
             THEN Raised(<<"Empty text content in LLM response">>)
             ELSE Returned(generated_text)

\* faulty variant: only the ValueErrors of the response checks are handled
Caught_ValueErrorOnly(r) == ~r.raises

\* line 152: except Exception catches whatever _safe_generate_content
\* re-raises (line 103), the errors of model.generate_content included
Caught(r) == TRUE

FailureNotice == "Failed to generate changelog due to an error: "

\* faulty variant: the fallback carries the notice only
FallbackMessage_NoRawData(error, call, commit_details, file_changes) ==
    <<FailureNotice>> \o error

\* lines 154-165: error_msg
FallbackMessage(error, call, commit_details, file_changes) ==
    <<FailureNotice>> \o error
    \o <<"\n\nRaw commit data has been included below:\n\n# Commits between ",
         call.from_ref, " and ", call.to_ref, "\n\n">>
    \o commit_details
    \o <<"\n\n# Files Changed\n\n">>
    \o file_changes
    \o <<"\n">>

(***************************************************************************)
(* Inputs of generate_changelog                                            *)
(***************************************************************************)
FileChangePool ==
    { [filename |-> "src/app.py", status |-> "modified", additions |-> 3, deletions |-> 1],
      [filename |-> "logo.png", status |-> "added"] }

Lit(text) == [field |-> "", lit |-> text]
Field(f) == [field |-> f, lit |-> ""]

\* contents of templates/changelog_user_prompt.md (read at run time)
Templates ==
    { <<Lit("Generate a changelog for "), Field("repo"), Lit(" from "),
        Field("from_ref"), Lit(" to "), Field("to_ref"), Lit(" dated "),
        Field("current_date"), Lit("\n\nCommits:\n"), Field("commit_details"),
        Lit("\n\nFiles:\n"), Field("file_changes"), Lit("\n")>>,
      <<Field("commit_details"), Lit("\n"), Field("file_changes")>> }

\* what model.generate_content(prompt) does
Responses ==
    { [raises |-> TRUE, error |-> "503 Service Unavailable", candidates |-> FALSE,
       block_reason |-> "", text_error |-> "", text |-> <<>>],
      [raises |-> FALSE, error |-> "", candidates |-> FALSE,
       block_reason |-> "SAFETY", text_error |-> "", text |-> <<>>],
      [raises |-> FALSE, error |-> "", candidates |-> FALSE,
       block_reason |-> "", text_error |-> "", text |-> <<>>],
      [raises |-> FALSE, error |-> "", candidates |-> FALSE,
       block_reason |-> "", text_error |-> "response.text has no parts", text |-> <<>>],
      [raises |-> FALSE, error |-> "", candidates |-> TRUE,
       block_reason |-> "", text_error |-> "response.text has no parts", text |-> <<>>],
      [raises |-> FALSE, error |-> "", candidates |-> TRUE,
       block_reason |-> "", text_error |-> "", text |-> <<>>],
      [raises |-> FALSE, error |-> "", candidates |-> TRUE,
       block_reason |-> "", text_error |-> "", text |-> <<" ", "\n">>],
      [raises |-> FALSE, error |-> "", candidates |-> TRUE,
       block_reason |-> "", text_error |-> "",
       text |-> <<"\n", "#", "#", " ", "F", "e", "a", "t", "\n">>] }

InitLLM ==
    /\ llmPc = "start"
    /\ llm_call = [repo |-> "acme/widgets", from_ref |-> "v1.0.0",
                   to_ref |-> "v1.1.0", current_date |-> "2024-03-01"]
    /\ llm_commits \in CommitLists
    /\ files_changed \in ListsUpTo(FileChangePool, MaxChangedFiles)
    /\ template \in Templates
    /\ response \in Responses
    /\ user_prompt = <<>>
    /\ generated = NoOutcome
    /\ changelog = <<>>
    /\ IdleExceptLLM

\* lines 114-146: commit_details, file_changes, user_prompt
LLM_BuildPrompt ==
    /\ llmPc = "start"
    /\ user_prompt' = UserPrompt(template, llm_call, llm_commits, files_changed)
    /\ llmPc' = "prompted"
    /\ UNCHANGED <<llm_call, llm_commits, files_changed, template, response,
                   generated, changelog, exceptLlmVars>>

\* line 150: self._safe_generate_content(self.changelog_model, user_prompt)
LLM_SafeGenerate ==
    /\ llmPc = "prompted"
    /\ generated' = safe_generate_content(response)
    /\ llmPc' = "generated"
    /\ UNCHANGED <<llm_call, llm_commits, files_changed, template, response,
                   user_prompt, changelog, exceptLlmVars>>

\* line 150: return of the generated text
LLM_Return ==
    /\ llmPc = "generated"
    /\ generated.ok
    /\ changelog' = generated.text
    /\ llmPc' = "done"
    /\ UNCHANGED <<llm_call, llm_commits, files_changed, template, response,
                   user_prompt, generated, exceptLlmVars>>

\* lines 152-166: except Exception as e: return error_msg
LLM_Fallback ==
    /\ llmPc = "generated"
    /\ ~generated.ok
    /\ IF Caught(response)
       THEN /\ changelog' = FallbackMessage(generated.error, llm_call,
                                            CommitDetails(llm_commits),
                                            FileChanges(files_changed))
            /\ llmPc' = "done"
       ELSE /\ llmPc' = "raised"
            /\ UNCHANGED changelog
    /\ UNCHANGED <<llm_call, llm_commits, files_changed, template, response,
                   user_prompt, generated, exceptLlmVars>>

NextLLM == LLM_BuildPrompt \/ LLM_SafeGenerate \/ LLM_Return \/ LLM_Fallback

SpecLLM == InitLLM /\ [][NextLLM]_vars

(***************************************************************************)
(* github_client.py: GitHubClient                                          *)
(***************************************************************************)
\* the characters of a sequence as one piece
RECURSIVE Str(_)
Str(chars) == IF chars = <<>> THEN "" ELSE Head(chars) \o Str(Tail(chars))

\* a Python value is truthy: an Optional that is neither None nor ''
Truthy(o) == o # None /\ o[1] # <<>>

\* line 18: '/' not in repo or len(repo.split('/')) != 2
InvalidRepoFormat(repo) ==
    (\A i \in 1..Len(repo) : repo[i] # "/") \/ Len(Split(repo, "/")) # 2

\* one outbound call, as the log keeps it
Request(op, base, head, extra) ==
    [op |-> op, base |-> base, head |-> head, extra |-> extra]

\* _make_request: raise_for_status raises HTTPError for 4xx and 5xx, the
\* transport raises other RequestExceptions; response.json() raises ValueError
TransportErrors ==
    {"HTTPError 401", "HTTPError 403", "HTTPError 404", "HTTPError 500",
     "ConnectionError", "JSONDecodeError"}

\* faulty variant: the status of the answer is not looked at
RaisesForStatus_Never(answer) == FALSE

\* response.raise_for_status() (github_client.py 48, cli.py 75) raises
\* HTTPError for 4xx and 5xx
RaisesForStatus(answer) == answer.status >= 400 /\ answer.status < 600

\* bodies the compare endpoint answers with (response.json())
ComparisonPool ==
    { Some([commits |-> <<>>, files |-> <<>>]),
      Some([commits |-> <<CHOOSE c \in CommitPool : "sha" \notin DOMAIN c>>,
            files |-> FileList(2, 1, 3), total_commits |-> 300]),
      None }

\* bodies the repository endpoint answers with: default_branch, or no such key
RepoInfoPool == { Some(<<"m","a","i","n">>), Some(<<"t","r","u","n","k">>), None }

(***************************************************************************)
(* processor.py: process_repository                                        *)
(***************************************************************************)
ReturnNone == [kind |-> "none", content |-> <<>>, suggested |-> None, error |-> ""]
ReturnValue(content, suggested) ==
    [kind |-> "value", content |-> content, suggested |-> suggested, error |-> ""]
Raise(error) ==
    [kind |-> "raise", content |-> <<>>, suggested |-> None, error |-> error]

\* faulty variant: the handler turns the error into the failure result None
Reraised_AsNone(error) == ReturnNone

\* lines 157-166: the handlers print the error and re-raise it
Reraised(error) == Raise(error)

\* line 97: client = GitHubClient(repo=repo, token=token)
Proc_Construct ==
    /\ procPc = "start"
    /\ IF InvalidRepoFormat(proc_args.repo)
       THEN /\ procPc' = "raised"
            /\ proc_result' = Raise("ValueError: Invalid repository format")
       ELSE /\ procPc' = "constructed"
            /\ UNCHANGED proc_result
    /\ UNCHANGED <<proc_args, base_ref, head_ref, comparison_data,
                   llm_input_data, requests, cliVars, exceptProcVars>>

\* lines 103-106: if tag_range
Proc_ResolveRange ==
    /\ procPc = "constructed"
    /\ proc_args.tag_range # None
    /\ base_ref' = Some(proc_args.tag_range[1][1])
    /\ head_ref' = Some(proc_args.tag_range[1][2])
    /\ procPc' = "resolved"
    /\ UNCHANGED <<proc_args, comparison_data, llm_input_data, proc_result,
                   requests, cliVars, exceptProcVars>>

\* faulty variant: the default branch is looked up whatever target_branch is
UsesTargetBranch_Never(a) == FALSE

\* line 110: target_branch or client.get_default_branch() takes target_branch
\* when it is truthy, without evaluating the call
UsesTargetBranch(a) == Truthy(a.target_branch)

\* faulty variant: a head that could not be determined is used all the same
HeadUndetermined_Never(head) == FALSE

\* line 111: if not head_ref
HeadUndetermined(head) == ~Truthy(head)

\* lines 107-114 with a target_branch: head_ref = target_branch
Proc_ResolveSinceBranch ==
    /\ procPc = "constructed"
    /\ proc_args.tag_range = None
    /\ Truthy(proc_args.since_tag)
    /\ UsesTargetBranch(proc_args)
    /\ base_ref' = proc_args.since_tag
    /\ head_ref' = proc_args.target_branch
    /\ procPc' = "resolved"
    /\ UNCHANGED <<proc_args, comparison_data, llm_input_data, proc_result,
                   requests, cliVars, exceptProcVars>>

\* lines 107-114 without one: head_ref = client.get_default_branch()
\* (github_client.py 153-176: one GET; None when the key is missing)
Proc_ResolveSinceDefault ==
    /\ procPc = "constructed"
    /\ proc_args.tag_range = None
    /\ Truthy(proc_args.since_tag)
    /\ ~UsesTargetBranch(proc_args)
    /\ requests' = Append(requests, Request("default_branch", None, None, None))
    /\ \/ \E info \in RepoInfoPool :
             /\ base_ref' = proc_args.since_tag
             /\ head_ref' = info
             /\ IF HeadUndetermined(info)
                THEN procPc' = "returned" /\ proc_result' = ReturnNone
                ELSE procPc' = "resolved" /\ UNCHANGED proc_result
       \/ \E e \in TransportErrors :
             /\ base_ref' = proc_args.since_tag
             /\ procPc' = "raised"
             /\ proc_result' = Reraised(e)
             /\ UNCHANGED head_ref
    /\ UNCHANGED <<proc_args, comparison_data, llm_input_data, cliVars, exceptProcVars>>

\* lines 115-118: neither a range nor a since tag
Proc_ResolveNothing ==
    /\ procPc = "constructed"
    /\ proc_args.tag_range = None
    /\ ~Truthy(proc_args.since_tag)
    /\ procPc' = "returned"
    /\ proc_result' = ReturnNone
    /\ UNCHANGED <<proc_args, base_ref, head_ref, comparison_data,
                   llm_input_data, requests, cliVars, exceptProcVars>>

\* lines 122-127: comparison_data = client.compare_commits(base, head)
\* (github_client.py 109-130: one GET, errors re-raised)
Proc_Fetch ==
    /\ procPc = "resolved"
    /\ requests' = Append(requests, Request("compare", base_ref, head_ref, None))
    /\ \/ \E data \in ComparisonPool :
             /\ comparison_data' = data
             /\ IF data = None
                THEN procPc' = "returned" /\ proc_result' = ReturnNone
                ELSE procPc' = "fetched" /\ UNCHANGED proc_result
       \/ \E e \in TransportErrors :
             /\ procPc' = "raised"
             /\ proc_result' = Reraised(e)
             /\ UNCHANGED comparison_data
    /\ UNCHANGED <<proc_args, base_ref, head_ref, llm_input_data, cliVars, exceptProcVars>>

\* lines 130-141: llm_input_data = format_commit_data_for_llm(commits, files)
Proc_Format ==
    /\ procPc = "fetched"
    /\ llm_input_data' =
          format_commit_data_for_llm(Get(comparison_data[1], "commits", <<>>),
                                     Get(comparison_data[1], "files", <<>>))
    /\ procPc' = "formatted"
    /\ UNCHANGED <<proc_args, base_ref, head_ref, comparison_data, proc_result,
                   requests, cliVars, exceptProcVars>>

\* lines 150-152: the placeholder changelog around llm_input_data
PlaceholderChangelog(repo, base, head, data, input) ==
    LET cs == Get(data, "commits", <<>>)
        total_commits == Get(data, "total_commits", Len(cs))
    IN  <<"Placeholder Changelog for ">> \o repo \o <<" (">> \o base \o <<"...">>
        \o head \o <<")\n\n", "Based on ", ToString(total_commits), " commits and ",
                     ToString(Len(Get(data, "files", <<>>))), " changed files.\n\n">>
        \o input

\* lines 143-155: return generated_changelog
Proc_Return ==
    /\ procPc = "formatted"
    /\ proc_args.version = "processor.py"
    /\ proc_result' =
          ReturnValue(PlaceholderChangelog(proc_args.repo, base_ref[1], head_ref[1],
                                           comparison_data[1], llm_input_data),
                      None)
    /\ procPc' = "returned"
    /\ UNCHANGED <<proc_args, base_ref, head_ref, comparison_data,
                   llm_input_data, requests, cliVars, exceptProcVars>>

(***************************************************************************)
(* Inputs of process_repository                                            *)
(***************************************************************************)
Repos == { <<"o","/","r">>, <<"o","r">>, <<"o","/","r","/","x">> }
Tokens == { None, Some(<<"t","o","k">>) }
V1 == <<"v","1">>
V2 == <<"v","/","2">>
Dev == <<"d","e","v">>

InitProc ==
    /\ procPc = "start"
    /\ proc_args \in [version : {"processor.py"}, repo : Repos, token : Tokens,
                      since_tag : {None, Some(<<>>), Some(V1)},
                      tag_range : {None, Some(<<V1, V2>>)},
                      target_branch : {None, Some(<<>>), Some(Dev)}]
    /\ base_ref = None
    /\ head_ref = None
    /\ comparison_data = None
    /\ llm_input_data = <<>>
    /\ proc_result = NoResult
    /\ requests = <<>>
    /\ IdleCli
    /\ IdleExceptProc

NextProc ==
    \/ Proc_Construct
    \/ Proc_ResolveRange
    \/ Proc_ResolveSinceBranch
    \/ Proc_ResolveSinceDefault
    \/ Proc_ResolveNothing
    \/ Proc_Fetch
    \/ Proc_Format
    \/ Proc_Return

SpecProc == InitProc /\ [][NextProc]_vars

(***************************************************************************)
(* github_client.py: GitHubClient called on its own.  One method is called *)
(* on a freshly constructed client; the transport answers each request     *)
(* with a status and a body, or fails.                                     *)
(***************************************************************************)
BASE_URL == "https://api.github.com"

\* the exceptions of the requests library, the ValueError of response.json()
\* and of the constructor
HTTPError(status) == [type |-> "HTTPError", status |-> status]
Error(type) == [type |-> type, status |-> 0]

ClientReturn(value) == [kind |-> "return", value |-> value, error |-> None]
ClientRaise(exception) == [kind |-> "raise", value |-> None, error |-> Some(exception)]

\* what the transport does with a request: error is the exception it raises
\* ("" when it answers), valid tells whether the body parses as JSON, body
\* is the parsed JSON (None for null) and next the URL of the 'next' link
Answered(status, body, next) ==
    [error |-> "", status |-> status, valid |-> TRUE, body |-> body, next |-> next]

FailedAnswers ==
    { Answered(401, None, None), Answered(403, None, None),
      Answered(404, None, None), Answered(500, None, None),
      [error |-> "ConnectionError", status |-> 0, valid |-> FALSE,
       body |-> None, next |-> None],
      [error |-> "", status |-> 200, valid |-> FALSE, body |-> None, next |-> None] }

\* requests.request(method, url, headers=self.headers, **kwargs), line 47
HttpRequest(method, ep, ps, timeout) ==
    [method |-> method, url |-> <<BASE_URL>> \o ep, params |-> ps, timeout |-> timeout]

\* faulty variant: a request that failed is sent once more
Sent_WithRetry(log, request, answer) ==
    LET entry == [request |-> request, answer |-> answer]
    IN  IF answer.error # "" \/ RaisesForStatus(answer)
        THEN Append(Append(log, entry), entry)
        ELSE Append(log, entry)

\* line 47: the request is sent once, whatever the answer
Sent(log, request, answer) == Append(log, [request |-> request, answer |-> answer])

\* lines 45-66: the response, or the exception of the transport or of
\* raise_for_status, re-raised after printing
make_request(answer) ==
    IF answer.error # "" THEN ClientRaise(Error(answer.error))
    ELSE IF RaisesForStatus(answer) THEN ClientRaise(HTTPError(answer.status))
    ELSE ClientReturn(Some(answer))

\* lines 125-130, 146-151, 163-165: response.json() of the one request; the
\* except clause re-raises what was caught
JsonOfRequest(answer) ==
    LET made == make_request(answer)
    IN  IF made.kind = "raise" THEN made
        ELSE IF ~answer.valid THEN ClientRaise(Error("JSONDecodeError"))
        ELSE ClientReturn(answer.body)

\* lines 109-130
compare_commits(answer) == JsonOfRequest(answer)

\* lines 132-151
get_commit(answer) == JsonOfRequest(answer)

\* lines 153-176
get_default_branch(answer) ==
    LET repo_info == JsonOfRequest(answer)
    IN  IF repo_info.kind = "raise" THEN repo_info
        ELSE IF "default_branch" \notin DOMAIN repo_info.value[1]
        THEN ClientReturn(None)
        ELSE ClientReturn(Some(repo_info.value[1].default_branch))

\* the endpoints, as the pieces of the f-strings
RepoEndpoint(c) == <<"/repos/", Str(c.owner), "/", Str(c.repo_name)>>
CompareEndpoint(c, base, head) ==
    RepoEndpoint(c) \o <<"/compare/", Str(base), "...", Str(head)>>
CommitEndpoint(c, ref) == RepoEndpoint(c) \o <<"/commits/", Str(ref)>>
TagsEndpoint(c) == RepoEndpoint(c) \o <<"/tags">>

\* lines 82, 90-99: the endpoint of the following page; None ends the loop,
\* and so does the empty string that is left of a 'next' link that is the
\* base URL and nothing else (while endpoint:)
NextEndpoint(answer) ==
    IF answer.next # None /\ Head(answer.next[1]) = BASE_URL
                          /\ Tail(answer.next[1]) # <<>>
    THEN Some(Tail(answer.next[1]))
    ELSE None

\* faulty variant: the params of the first request are sent with every page
NextParams_Keep(answer, ps) == ps

\* line 97: params = None once a 'next' link was seen
NextParams(answer, ps) == IF answer.next # None THEN None ELSE ps

\* lines 18-27: __init__
Client_Init ==
    /\ ghPc = "new"
    /\ IF InvalidRepoFormat(gh_repo)
       THEN /\ ghPc' = "rejected"
            /\ gh_result' = ClientRaise(Error("ValueError: Invalid repository format"))
            /\ UNCHANGED client
       ELSE /\ ghPc' = "ready"
            /\ client' = Some([owner |-> Split(gh_repo, "/")[1],
                               repo_name |-> Split(gh_repo, "/")[2],
                               token |-> gh_token,
                               authorization |-> Truthy(gh_token)])
            /\ UNCHANGED gh_result
    /\ UNCHANGED <<gh_repo, gh_token, gh_call, endpoint, params, tags, http_log,
                   exceptGhVars>>

(***************************************************************************)
(* Inputs of the client                                                    *)
(***************************************************************************)
ClientRepos == Repos \cup { <<"/","r">>, <<"o","/">>, <<"/">>, <<>> }

CompareAnswers == FailedAnswers \cup {Answered(200, data, None) : data \in ComparisonPool}

CommitAnswers ==
    FailedAnswers \cup {Answered(200, Some([sha |-> <<"a","b","c">>]), None)}

RepoAnswers ==
    FailedAnswers \cup
    { Answered(200, Some([name |-> "r", default_branch |-> <<"m","a","i","n">>]), None),
      Answered(200, Some([name |-> "r"]), None) }

\* the j-th tag of page k
Tag(k, j) == [name |-> "v" \o ToString(k) \o "." \o ToString(j)]
ApiNext(k) == <<BASE_URL, "/repositories/123/tags?page=", ToString(k)>>
ForeignNext(k) == <<"https://example.org", "/tags?page=", ToString(k)>>

\* what page k of the tags is answered with
TagPageAnswers(k) ==
    FailedAnswers \cup
    { Answered(200, Some(page_tags), next) :
        page_tags \in {<<>>, <<Tag(k, 1)>>, <<Tag(k, 1), Tag(k, 2)>>},
        next \in {None, Some(ApiNext(k + 1)), Some(ForeignNext(k + 1)),
                  Some(<<BASE_URL>>)} }

\* compare_commits(base, head)
Client_CompareCommits ==
    /\ ghPc = "ready"
    /\ \E base \in {V1}, head \in {V2, Dev}, answer \in CompareAnswers :
          /\ gh_call' = [op |-> "compare_commits", base |-> base, head |-> head]
          /\ http_log' = Sent(http_log,
                              HttpRequest("GET", CompareEndpoint(client[1], base, head),
                                          None, Some(60)),
                              answer)
          /\ gh_result' = compare_commits(answer)
    /\ ghPc' = "done"
    /\ UNCHANGED <<gh_repo, gh_token, client, endpoint, params, tags, exceptGhVars>>

\* get_commit(ref)
Client_GetCommit ==
    /\ ghPc = "ready"
    /\ \E ref \in {V1}, answer \in CommitAnswers :
          /\ gh_call' = [op |-> "get_commit", base |-> ref, head |-> <<>>]
          /\ http_log' = Sent(http_log,
                              HttpRequest("GET", CommitEndpoint(client[1], ref),
                                          None, Some(30)),
                              answer)
          /\ gh_result' = get_commit(answer)
    /\ ghPc' = "done"
    /\ UNCHANGED <<gh_repo, gh_token, client, endpoint, params, tags, exceptGhVars>>

\* get_default_branch()
Client_GetDefaultBranch ==
    /\ ghPc = "ready"
    /\ \E answer \in RepoAnswers :
          /\ http_log' = Sent(http_log,
                              HttpRequest("GET", RepoEndpoint(client[1]), None, Some(10)),
                              answer)
          /\ gh_result' = get_default_branch(answer)
    /\ gh_call' = [op |-> "get_default_branch", base |-> <<>>, head |-> <<>>]
    /\ ghPc' = "done"
    /\ UNCHANGED <<gh_repo, gh_token, client, endpoint, params, tags, exceptGhVars>>

\* get_tags(), lines 78-80: the first endpoint, per_page = 100, no tags yet
Client_GetTagsStart ==
    /\ ghPc = "ready"
    /\ gh_call' = [op |-> "get_tags", base |-> <<>>, head |-> <<>>]
    /\ endpoint' = Some(TagsEndpoint(client[1]))
    /\ params' = Some([per_page |-> 100])
    /\ tags' = <<>>
    /\ ghPc' = "paging"
    /\ UNCHANGED <<gh_repo, gh_token, client, gh_result, http_log, exceptGhVars>>

\* get_tags(), lines 82-107: one turn of the loop, and the return when the
\* loop ends; a repository has at most MaxPages pages of tags
Client_GetTagsPage ==
    /\ ghPc = "paging"
    /\ endpoint # None
    /\ \E answer \in TagPageAnswers(Len(http_log) + 1) :
          /\ (Len(http_log) + 1 >= MaxPages) => answer.next = None
          /\ http_log' = Sent(http_log, HttpRequest("GET", endpoint[1], params, None),
                              answer)
          /\ LET page_tags == JsonOfRequest(answer)
             IN  IF page_tags.kind = "raise"
                 THEN /\ gh_result' = page_tags
                      /\ ghPc' = "done"
                      /\ UNCHANGED <<endpoint, params, tags>>
                 ELSE IF ~Truthy(page_tags.value)
                 THEN /\ gh_result' = ClientReturn(Some(tags))
                      /\ ghPc' = "done"
                      /\ UNCHANGED <<endpoint, params, tags>>
                 ELSE /\ tags' = tags \o page_tags.value[1]
                      /\ endpoint' = NextEndpoint(answer)
                      /\ params' = NextParams(answer, params)
                      /\ IF NextEndpoint(answer) = None
                         THEN /\ gh_result' = ClientReturn(Some(tags \o page_tags.value[1]))
                              /\ ghPc' = "done"
                         ELSE /\ ghPc' = "paging"
                              /\ UNCHANGED gh_result
    /\ UNCHANGED <<gh_repo, gh_token, client, gh_call, exceptGhVars>>

InitClient ==
    /\ ghPc = "new"
    /\ gh_repo \in ClientRepos
    /\ gh_token \in Tokens
    /\ client = None
    /\ gh_call = NoCall
    /\ endpoint = None
    /\ params = None
    /\ tags = <<>>
    /\ gh_result = NoClientResult
    /\ http_log = <<>>
    /\ IdleExceptClient

NextClient ==
    \/ Client_Init
    \/ Client_CompareCommits
    \/ Client_GetCommit
    \/ Client_GetDefaultBranch
    \/ Client_GetTagsStart
    \/ Client_GetTagsPage

SpecClient == InitClient /\ [][NextClient]_vars

(***************************************************************************)
(* The client called on its own, or through process_repository             *)
(***************************************************************************)
InitTransport == InitClient \/ InitProc

NextTransport == NextClient \/ NextProc

SpecTransport == InitTransport /\ [][NextTransport]_vars

(***************************************************************************)
(* cli.py: generate, trigger_deploy_workflow                               *)
(*                                                                         *)
(* generate calls process_repository(repo, token, tag_range) and unpacks   *)
(* (changelog_content, suggested_filename).  processor.py holds the        *)
(* function up to the formatted input (its generation step is a TODO), so  *)
(* a call from generate runs Proc_Construct .. Proc_Format as above, with  *)
(* no since_tag and no target_branch, and then Proc_Generate: the          *)
(* generation step of the specification (section 4.4), built from          *)
(* LLMHandler.generate_changelog, with an optional suggested filename.     *)
(***************************************************************************)
LOCAL_OUTPUT_DIR == "changelogs"

\* file names the generation capability suggests
Suggestions ==
    { None, Some(<<>>), Some(<<"n","o","t","e","s">>), Some(<<"R",".","M","D">>),
      Some(<<"a","/","b",":","c",".","m","d">>), Some(<<".",".">>) }

\* generation step of the function generate calls: content and suggestion
Proc_Generate ==
    /\ procPc = "formatted"
    /\ proc_args.version = "cli.py"
    /\ \/ /\ requests' = Append(requests, Request("generate", base_ref, head_ref, None))
          /\ \E r \in Responses, suggestion \in Suggestions :
                LET out == safe_generate_content(r)
                    cs == Get(comparison_data[1], "commits", <<>>)
                    fs == Get(comparison_data[1], "files", <<>>)
                    call == [repo |-> Str(proc_args.repo),
                             from_ref |-> Str(base_ref[1]),
                             to_ref |-> Str(head_ref[1])]
                    content == IF out.ok THEN out.text
                               ELSE FallbackMessage(out.error, call,
                                                    CommitDetails(cs), FileChanges(fs))
                IN  proc_result' = ReturnValue(content, suggestion)
          /\ procPc' = "returned"
       \/ \* LLMHandler() or load_template raises
          /\ proc_result' = Raise("ValueError: No API key provided")
          /\ procPc' = "raised"
          /\ UNCHANGED requests
    /\ UNCHANGED <<proc_args, base_ref, head_ref, comparison_data,
                   llm_input_data, cliVars, exceptProcVars>>

\* lines 150-154 and 196-200: process_repository(repo, token, tag_range)
CallProcess ==
    /\ procPc' = "start"
    /\ proc_args' = [version |-> "cli.py", repo |-> args.repo, token |-> args.token,
                     since_tag |-> None,
                     tag_range |-> Some(<<args.from_tag[1], args.to_tag[1]>>),
                     target_branch |-> None]
    /\ base_ref' = None
    /\ head_ref' = None
    /\ comparison_data' = None
    /\ llm_input_data' = <<>>
    /\ proc_result' = NoResult
    /\ proc_calls' = proc_calls + 1
    /\ UNCHANGED requests

ProcessFinished == procPc \in {"returned", "raised"}

\* the content a finished call hands back: None, or the text
ReturnedContent == IF proc_result.kind = "value" THEN Some(proc_result.content) ELSE None

\* faulty variant: whatever process_repository hands back is taken as content
EmptyContent_Never(content) == FALSE

\* not changelog_content or not changelog_content.strip()
EmptyContent(content) == content = None \/ Strip(content[1], Whitespace) = <<>>

\* raise typer.Exit(code=1)
Exit(code) ==
    /\ pc' = "done"
    /\ exit_code' = Some(code)

\* line 128: not (from_tag and to_tag)
MissingTags(a) == ~(Truthy(a.from_tag) /\ Truthy(a.to_tag))

\* faulty variant: the pre-run is made for local runs only (deploy mode bypasses it)
RunsPreRun_LocalOnly(a) == a.local /\ ~Truthy(a.output)

\* faulty variant: the pre-run is made whatever the options are
RunsPreRun_Always(a) == TRUE

\* line 139: not (local and output)
RunsPreRun(a) == ~(a.local /\ Truthy(a.output))

\* faulty variant: a missing token never stops the run
MissingDeployToken_Ignored(a) == FALSE

\* lines 140-144: no token, and not local
MissingDeployToken(a) == ~Truthy(a.token) /\ ~a.local

\* lines 127-130
Cli_Validate ==
    /\ pc = "validate"
    /\ IF MissingTags(args)
       THEN Exit(1)
       ELSE pc' = "prerun" /\ UNCHANGED exit_code
    /\ UNCHANGED <<args, dispatch_response, suggested_filename, changelog_content, output_filename,
                   files_written, proc_calls, procVars, exceptCliVars>>

\* lines 139, 169-170: --local with --output skips the pre-run
Cli_PreRunSkip ==
    /\ pc = "prerun"
    /\ ~RunsPreRun(args)
    /\ pc' = "action"
    /\ UNCHANGED <<args, dispatch_response, suggested_filename, changelog_content, output_filename,
                   files_written, exit_code, proc_calls, procVars, exceptCliVars>>

\* lines 140-144: deployment without a token
Cli_PreRunNoToken ==
    /\ pc = "prerun"
    /\ RunsPreRun(args)
    /\ MissingDeployToken(args)
    /\ Exit(1)
    /\ UNCHANGED <<args, dispatch_response, suggested_filename, changelog_content, output_filename,
                   files_written, proc_calls, procVars, exceptCliVars>>

\* lines 147-154: the pre-run calls process_repository
Cli_PreRunCall ==
    /\ pc = "prerun"
    /\ RunsPreRun(args)
    /\ ~MissingDeployToken(args)
    /\ CallProcess
    /\ pc' = "processing"
    /\ UNCHANGED <<args, dispatch_response, suggested_filename, changelog_content, output_filename,
                   files_written, exit_code, exceptCliVars>>

\* lines 150-168: the result of the pre-run, or its exception
Cli_PreRunDone ==
    /\ pc = "processing"
    /\ ProcessFinished
    /\ IF proc_result.kind = "raise"
       THEN /\ Exit(1)
            /\ UNCHANGED <<suggested_filename, changelog_content>>
       ELSE /\ changelog_content' = ReturnedContent
            /\ suggested_filename' = proc_result.suggested
            /\ IF args.local /\ EmptyContent(ReturnedContent)
               THEN Exit(1)
               ELSE pc' = "action" /\ UNCHANGED exit_code
    /\ UNCHANGED <<args, dispatch_response, output_filename, files_written, proc_calls, procVars,
                   exceptCliVars>>

\* what the dispatch call carries: target_repo, from_tag, to_tag and, when
\* there is one, suggested_filename (lines 59-68)
DispatchRequest(a, suggested) ==
    Request("dispatch", Some(<<a.repo, a.from_tag[1]>>), a.to_tag,
            IF Truthy(suggested) THEN suggested ELSE None)

\* what the dispatch endpoint answers with, or the error of the transport
DispatchAnswers ==
    { [error |-> "", status |-> 204], [error |-> "", status |-> 401],
      [error |-> "", status |-> 403], [error |-> "", status |-> 404],
      [error |-> "", status |-> 422], [error |-> "", status |-> 500],
      [error |-> "ConnectionError", status |-> 0] }

\* lines 173-185 and trigger_deploy_workflow (40-86): one POST; a
\* RequestException (HTTPError included) ends the run with code 1
Cli_Deploy ==
    /\ pc = "action"
    /\ ~args.local
    /\ IF ~Truthy(args.token)
       THEN Exit(1) /\ UNCHANGED <<requests, dispatch_response>>
       ELSE /\ requests' = Append(requests, DispatchRequest(args, suggested_filename))
            /\ \E answer \in DispatchAnswers :
                  /\ dispatch_response' = Some(answer)
                  /\ pc' = "done"
                  /\ exit_code' =
                        Some(IF answer.error # "" \/ RaisesForStatus(answer)
                             THEN 1 ELSE 0)
    /\ UNCHANGED <<args, suggested_filename, changelog_content, output_filename,
                   files_written, proc_calls, procPc, proc_args, base_ref, head_ref,
                   comparison_data, llm_input_data, proc_result, exceptCliVars>>

\* lines 191-200: --local with --output calls process_repository now
Cli_LocalCall ==
    /\ pc = "action"
    /\ args.local
    /\ Truthy(args.output)
    /\ CallProcess
    /\ pc' = "local_processing"
    /\ UNCHANGED <<args, dispatch_response, suggested_filename, changelog_content, output_filename,
                   files_written, exit_code, exceptCliVars>>

\* lines 196-207: its result (the suggestion is discarded), or its exception
Cli_LocalDone ==
    /\ pc = "local_processing"
    /\ ProcessFinished
    /\ IF proc_result.kind = "raise"
       THEN Exit(1) /\ UNCHANGED changelog_content
       ELSE /\ changelog_content' = ReturnedContent
            /\ IF EmptyContent(ReturnedContent)
               THEN Exit(1)
               ELSE pc' = "filename" /\ UNCHANGED exit_code
    /\ UNCHANGED <<args, dispatch_response, suggested_filename, output_filename, files_written,
                   proc_calls, procVars, exceptCliVars>>

\* line 191: --local without --output has its content already
Cli_LocalReady ==
    /\ pc = "action"
    /\ args.local
    /\ ~Truthy(args.output)
    /\ pc' = "filename"
    /\ UNCHANGED <<args, dispatch_response, suggested_filename, changelog_content, output_filename,
                   files_written, exit_code, proc_calls, procVars, exceptCliVars>>

\* os.path.dirname(path) is not empty: the path has a separator
HasDirectory(path) == \E i \in 1..Len(path) : path[i] = "/"

\* os.path.join(LOCAL_OUTPUT_DIR, name)
InOutputDir(fname) == <<LOCAL_OUTPUT_DIR, "/">> \o fname

\* str.lower() on the characters of the model
Lower(chars) ==
    [i \in 1..Len(chars) |->
        IF chars[i] = "M" THEN "m" ELSE IF chars[i] = "D" THEN "d"
        ELSE IF chars[i] = "R" THEN "r" ELSE chars[i]]

\* s.endswith(suffix)
EndsWith(chars, suffix) ==
    /\ Len(chars) >= Len(suffix)
    /\ SubSeq(chars, Len(chars) - Len(suffix) + 1, Len(chars)) = suffix

\* faulty variant: .md is appended whatever the suggestion ends in
SafeSuggestedName_AlwaysAppend(suggested) ==
    sanitize_filename(suggested) \o <<".", "m", "d">>

\* lines 224-226: sanitized suggestion with .md ensured
SafeSuggestedName(suggested) ==
    LET safe_suggested_name == sanitize_filename(suggested)
    IN  IF EndsWith(Lower(safe_suggested_name), <<".", "m", "d">>)
        THEN safe_suggested_name
        ELSE safe_suggested_name \o <<".", "m", "d">>

\* faulty variant: the repository name goes into the file name as it is
DefaultFilename_RawRepo(repo, from_tag, to_tag) ==
    repo \o <<"_">> \o sanitize_filename(from_tag)
    \o <<"_", "t", "o", "_">> \o sanitize_filename(to_tag) \o <<".", "m", "d">>

\* lines 231-234: the default naming scheme
DefaultFilename(repo, from_tag, to_tag) ==
    sanitize_filename(repo) \o <<"_">> \o sanitize_filename(from_tag)
    \o <<"_", "t", "o", "_">> \o sanitize_filename(to_tag) \o <<".", "m", "d">>

\* faulty variant: an explicit output is always placed in the default directory
OutputFilename_AlwaysInDir(a, suggested) ==
    IF Truthy(a.output) THEN InOutputDir(a.output[1])
    ELSE IF Truthy(suggested) THEN InOutputDir(SafeSuggestedName(suggested[1]))
    ELSE InOutputDir(DefaultFilename(a.repo, a.from_tag[1], a.to_tag[1]))

\* lines 210-235: output_filename
OutputFilename(a, suggested) ==
    IF Truthy(a.output)
    THEN IF HasDirectory(a.output[1]) THEN a.output[1] ELSE InOutputDir(a.output[1])
    ELSE IF Truthy(suggested) THEN InOutputDir(SafeSuggestedName(suggested[1]))
    ELSE InOutputDir(DefaultFilename(a.repo, a.from_tag[1], a.to_tag[1]))

\* lines 209-237: the file name, and os.makedirs (an OSError ends the run)
Cli_ResolveFilename ==
    /\ pc = "filename"
    /\ output_filename' = Some(OutputFilename(args, suggested_filename))
    /\ \E made \in BOOLEAN :
          IF made THEN pc' = "write" /\ UNCHANGED exit_code ELSE Exit(1)
    /\ UNCHANGED <<args, dispatch_response, suggested_filename, changelog_content, files_written,
                   proc_calls, procVars, exceptCliVars>>

\* lines 240-251: open(output_filename, "w") and f.write, or IOError; the
\* file is opened (created empty) before the content is looked at (244-246)
Cli_Write ==
    /\ pc = "write"
    /\ \E opened \in BOOLEAN :
          IF ~opened
          THEN Exit(1) /\ UNCHANGED files_written
          ELSE IF changelog_content = None
          THEN /\ files_written' =
                     Append(files_written,
                            [path |-> output_filename[1], content |-> <<>>])
               /\ Exit(1)
          ELSE /\ files_written' =
                     Append(files_written,
                            [path |-> output_filename[1], content |-> changelog_content[1]])
               /\ pc' = "done"
               /\ exit_code' = Some(0)
    /\ UNCHANGED <<args, dispatch_response, suggested_filename, changelog_content, output_filename,
                   proc_calls, procVars, exceptCliVars>>

(***************************************************************************)
(* Inputs of generate                                                      *)
(***************************************************************************)
CliRepos == { <<"o","/","r">>, <<"o","r">> }
Outputs ==
    { None, Some(<<"o","u","t",".","m","d">>), Some(<<"d","/","o",".","m","d">>),
      Some(<<"/","t","/","o",".","t","x","t">>) }

Init ==
    /\ pc = "validate"
    /\ args \in [repo : CliRepos, from_tag : {None, Some(V1)}, to_tag : {None, Some(V2)},
                 output : Outputs, token : Tokens, local : BOOLEAN]
    /\ suggested_filename = None
    /\ changelog_content = None
    /\ output_filename = None
    /\ files_written = <<>>
    /\ exit_code = None
    /\ proc_calls = 0
    /\ dispatch_response = None
    /\ IdleProc
    /\ IdleExceptCli

Next ==
    \/ Cli_Validate
    \/ Cli_PreRunSkip
    \/ Cli_PreRunNoToken
    \/ Cli_PreRunCall
    \/ Cli_PreRunDone
    \/ Cli_Deploy
    \/ Cli_LocalCall
    \/ Cli_LocalDone
    \/ Cli_LocalReady
    \/ Cli_ResolveFilename
    \/ Cli_Write
    \/ Proc_Construct
    \/ Proc_ResolveRange
    \/ Proc_Fetch
    \/ Proc_Format
    \/ Proc_Generate

Spec == Init /\ [][Next]_vars

(***************************************************************************)
(* Reading a rendered prompt back: the pieces of the commit section and of *)
(* the file section, and the entries of each.                              *)
(***************************************************************************)
PosOf(p, piece) == {i \in 1..Len(p) : p[i] = piece}
Least(S) == CHOOSE x \in S : \A y \in S : x <= y
Greatest(S) == CHOOSE x \in S : \A y \in S : x >= y

RECURSIVE Ascending(_)
Ascending(S) ==
    IF S = {} THEN <<>> ELSE <<Least(S)>> \o Ascending(S \ {Least(S)})

FilesHeaderAt(p) == Least(PosOf(p, FilesHeader))
CommitPart(p) == SubSeq(p, 2, FilesHeaderAt(p) - 1)
FilePart(p) == SubSeq(p, FilesHeaderAt(p) + 1, Len(p))

\* where a file entry "- <filename> (<status>)" starts in the file section
FileHeads(q) ==
    {i \in 1..(Len(q) - 4) : q[i] = "- " /\ q[i + 2] = " (" /\ q[i + 4] = ")"}

\* the file entries of the file section, each up to the next entry, the
\* omission line or the end
FileEntries(q) ==
    LET h == Ascending(FileHeads(q))
        stop == IF PosOf(q, OmitPrefix) # {}
                THEN Least(PosOf(q, OmitPrefix)) ELSE Len(q) + 1
    IN  [k \in 1..Len(h) |->
            SubSeq(q, h[k], (IF k < Len(h) THEN h[k + 1] ELSE stop) - 1)]

\* the short SHAs of the commit entries "- <sha> by <author> (<date>):" in order
CommitShas(c) ==
    LET by == Ascending(PosOf(c, " by "))
    IN  [k \in 1..Len(by) |->
            LET dash == Greatest({i \in 1..(by[k] - 1) : c[i] = "- "})
            IN  SubSeq(c, dash + 1, by[k] - 1)]

(***************************************************************************)
(* Claims about format_commit_data_for_llm, checked under SpecFormat       *)
(***************************************************************************)

\* C2: for a file list of more than 50 entries the prompt renders exactly the
\* first 50 files in input order, followed by exactly one omission line whose
\* count is len(files) - 50, and nothing after it.
C2_FileCountTruncation ==
    (fmtPc = "done" /\ Len(files) > MAX_FILES_IN_PROMPT) =>
        LET q == FilePart(prompt_content)
            e == FileEntries(q)
            omit == PosOf(q, OmitPrefix)
        IN  /\ Len(e) = MAX_FILES_IN_PROMPT
            /\ \A k \in 1..Len(e) :
                  /\ e[k][2] = Get(files[k], "filename", "Unknown file")
                  /\ e[k][4] = Get(files[k], "status", "unknown")
            /\ Cardinality(omit) = 1
            /\ \A o \in omit :
                  /\ q[o + 1] = ToString(Len(files) - MAX_FILES_IN_PROMPT)
                  /\ q[o + 2] = OmitSuffix
                  /\ Len(q) = o + 2

C2_Witness ==
    /\ fmtPc = "done"
    /\ Len(files) > MAX_FILES_IN_PROMPT + 1
    /\ PosOf(prompt_content, OmitPrefix) # {}

\* C3: a rendered file whose patch is longer than 1000 characters is rendered
\* as exactly the first 1000 characters of the patch followed by the
\* "diff truncated" marker, inside the diff fence.
C3_PatchTruncation ==
    fmtPc = "done" =>
        LET e == FileEntries(FilePart(prompt_content))
        IN  \A k \in 1..Len(e) :
                LET patch == Get(files[k], "patch", <<>>)
                IN  Len(patch) > MAX_PATCH_LENGTH =>
                        SubSeq(e[k], 6, Len(e[k])) =
                            <<FenceOpen>> \o SubSeq(patch, 1, MAX_PATCH_LENGTH)
                            \o <<TruncMarker, FenceClose, "\n">>

C3_Witness ==
    /\ fmtPc = "done"
    /\ \E k \in 1..Len(files) :
          /\ k <= MAX_FILES_IN_PROMPT
          /\ Len(Get(files[k], "patch", <<>>)) > MAX_PATCH_LENGTH + 1
          /\ TruncMarker \in {prompt_content[i] : i \in 1..Len(prompt_content)}

\* C10: for an empty commit list the commit section is exactly the "no
\* commits" placeholder line (never empty); for a non-empty list the
\* placeholder is absent and one entry per commit is rendered in input order.
C10_EmptyCommitPlaceholder ==
    fmtPc = "done" =>
        LET c == CommitPart(prompt_content)
        IN  /\ prompt_content[1] = CommitsHeader
            /\ c # <<>>
            /\ commits = <<>> => c = <<NoCommitsLine>>
            /\ commits # <<>> =>
                  /\ PosOf(c, NoCommitsLine) = {}
                  /\ CommitShas(c) =
                        [i \in 1..Len(commits) |->
                            Take(Get(commits[i], "sha", <<"N/A">>), 7)]

C10_Witness ==
    /\ fmtPc = "done"
    /\ commits = <<>>
    /\ NoCommitsLine \in {prompt_content[i] : i \in 1..Len(prompt_content)}

(***************************************************************************)
(* Claims about generate_changelog, checked under SpecLLM                  *)
(***************************************************************************)
\* needle occurs in hay as a contiguous run of pieces
Contains(hay, needle) ==
    \E i \in 0..(Len(hay) - Len(needle)) : SubSeq(hay, i + 1, i + Len(needle)) = needle

GenerationFailed == llmPc = "done" /\ ~generated.ok

\* C4 (as claimed): when generation fails, the returned content is non-empty
\* and contains the failure notice with the error text and the original
\* assembled prompt text verbatim.
C4_FallbackHasPrompt ==
    GenerationFailed =>
        /\ changelog # <<>>
        /\ changelog[1] = FailureNotice
        /\ SubSeq(changelog, 2, 1 + Len(generated.error)) = generated.error
        /\ Contains(changelog, user_prompt)

\* C4 (amended): when generation fails, the returned content is non-empty,
\* starts with the failure notice followed by the error text, and contains
\* verbatim the commit lines and file-change lines the prompt was built from
\* (the raw data), not the prompt text itself.
C4_FallbackHasRawData ==
    GenerationFailed =>
        /\ changelog # <<>>
        /\ changelog[1] = FailureNotice
        /\ generated.error # <<>>
        /\ SubSeq(changelog, 2, 1 + Len(generated.error)) = generated.error
        /\ Contains(changelog, CommitDetails(llm_commits))
        /\ Contains(changelog, FileChanges(files_changed))

C4_Witness ==
    /\ GenerationFailed
    /\ response.block_reason = "SAFETY"
    /\ llm_commits # <<>>
    /\ files_changed # <<>>
    /\ Contains(user_prompt, CommitDetails(llm_commits))
    /\ Contains(user_prompt, FileChanges(files_changed))

\* the failures of the generation capability, by what the response holds
ApiError(r) == r.raises
NoCandidates(r) == ~r.raises /\ ~r.candidates /\ r.block_reason = ""
Blocked(r) == ~r.raises /\ ~r.candidates /\ r.block_reason # ""
EmptyText(r) ==
    ~r.raises /\ r.candidates /\ r.text_error = "" /\ Strip(r.text, Whitespace) = <<>>

\* C13: generate_changelog never raises; whenever the generation capability
\* fails (blocked, no candidates, empty text, API error) it returns the
\* fallback content, which is not empty and starts with the failure notice.
C13_GenerationFailureNotFatal ==
    /\ llmPc # "raised"
    /\ llmPc = "done" =>
          /\ changelog # <<>>
          /\ (ApiError(response) \/ NoCandidates(response) \/ Blocked(response)
                \/ EmptyText(response))
                => (~generated.ok /\ Head(changelog) = FailureNotice)
          /\ generated.ok => changelog = generated.text

C13_Witness ==
    /\ llmPc = "done"
    /\ ApiError(response)
    /\ Head(changelog) = FailureNotice
    /\ changelog[2] = response.error

\* the leading text of the error an outcome reports ("" when it reports none)
Reason(out) == IF out.error = <<>> THEN "" ELSE Head(out.error)

\* C14: a response with no candidates, a blocked response and a response
\* whose text is empty each end _safe_generate_content with an error, the
\* three error texts differ from each other, and a text handed back as a
\* result is never empty.
C14_DistinctFailureReasons ==
    llmPc \in {"generated", "done"} =>
        /\ NoCandidates(response) =>
              /\ ~generated.ok
              /\ Reason(generated) =
                    "Empty or invalid response structure from LLM. Inner error: "
        /\ Blocked(response) =>
              /\ ~generated.ok
              /\ generated.error = <<"LLM Response Blocked: ", response.block_reason>>
        /\ EmptyText(response) =>
              /\ ~generated.ok
              /\ generated.error = <<"Empty text content in LLM response">>
        /\ generated.ok => (generated.text # <<>> /\ generated.error = <<>>)
        /\ \A r1, r2 \in Responses :
              (\/ NoCandidates(r1) /\ Blocked(r2)
               \/ NoCandidates(r1) /\ EmptyText(r2)
               \/ Blocked(r1) /\ EmptyText(r2))
              => Reason(safe_generate_content(r1)) # Reason(safe_generate_content(r2))

C14_Witness ==
    /\ llmPc = "generated"
    /\ EmptyText(response)
    /\ response.text # <<>>
    /\ ~generated.ok

(***************************************************************************)
(* Claims about sanitize_filename, checked under SpecSanitize              *)
(***************************************************************************)
\* C6: sanitizing an already sanitized name changes nothing:
\* sanitize_filename(sanitize_filename(s)) = sanitize_filename(s).
C6_SanitizeIdempotent ==
    sanPc = "twice" => resanitized = sanitized

C6_Witness ==
    /\ sanPc = "twice"
    /\ sanitized # name
    /\ sanitized # InvalidFilename
    /\ \E i \in 1..Len(name) : name[i] \in UnsafeChars
    /\ \E i \in 1..Len(name) : name[i] \in StripChars

\* C7 (as claimed): the result of sanitize_filename is never empty, holds
\* none of < > : " \ | ? * /, neither starts nor ends with a dot or a
\* whitespace character, and is the placeholder when nothing of the input
\* survives.
C7_SanitizedIsSafe ==
    sanPc \in {"once", "twice"} =>
        /\ sanitized # <<>>
        /\ \A i \in 1..Len(sanitized) : sanitized[i] \notin UnsafeChars \cup {"/"}
        /\ Head(sanitized) \notin {"."} \cup Whitespace
        /\ sanitized[Len(sanitized)] \notin {"."} \cup Whitespace
        /\ (\A i \in 1..Len(name) : name[i] \in UnsafeChars \cup StripChars)
              => sanitized = InvalidFilename

(***************************************************************************)
(* Claims about process_repository, checked under SpecProc                 *)
(***************************************************************************)
OpsOf(log) == {log[i].op : i \in 1..Len(log)}
CountOp(log, op, before) == Cardinality({j \in 1..(before - 1) : log[j].op = op})
SinceSet == Truthy(proc_args.since_tag)
RangeSet == proc_args.tag_range # None

\* C1 (as claimed): exactly one of {since_tag alone, (from_tag, to_tag)} may be
\* set; with any other combination no outbound call is ever made and the call
\* ends without a result.
C1_RangeExclusivity ==
    (procPc # "idle" /\ (SinceSet <=> RangeSet)) =>
        /\ requests = <<>>
        /\ procPc \in {"returned", "raised"} => proc_result.kind # "value"

Lookups(log) == {i \in 1..Len(log) : log[i].op = "default_branch"}

\* C11: in range mode the comparison is requested for base = from tag and
\* head = to tag with no default-branch lookup; in since mode for base =
\* since tag and head = the target branch when one is given, again with no
\* lookup, and otherwise head = the default branch that exactly one lookup,
\* made just before the comparison, answered.
C11_SinceModeResolution ==
    procPc # "idle" =>
        /\ RangeSet => Lookups(requests) = {}
        /\ Truthy(proc_args.target_branch) => Lookups(requests) = {}
        /\ Cardinality(Lookups(requests)) <= 1
        /\ \A i \in 1..Len(requests) :
              requests[i].op = "compare" =>
                  IF RangeSet
                  THEN /\ requests[i].base = Some(proc_args.tag_range[1][1])
                       /\ requests[i].head = Some(proc_args.tag_range[1][2])
                  ELSE /\ SinceSet
                       /\ requests[i].base = proc_args.since_tag
                       /\ IF Truthy(proc_args.target_branch)
                          THEN requests[i].head = proc_args.target_branch
                          ELSE /\ Lookups(requests) = {i - 1}
                               /\ requests[i].head = head_ref
                               /\ head_ref \in RepoInfoPool \ {None}

C11_Witness ==
    /\ ~RangeSet
    /\ proc_args.since_tag = Some(V1)
    /\ ~Truthy(proc_args.target_branch)
    /\ Len(requests) = 2
    /\ requests[1].op = "default_branch"
    /\ requests[2] = Request("compare", Some(V1), Some(<<"t","r","u","n","k">>), None)

UnresolvedHead ==
    /\ ~RangeSet
    /\ SinceSet
    /\ ~Truthy(proc_args.target_branch)
    /\ Lookups(requests) # {}
    /\ ~Truthy(head_ref)

\* C12 (as claimed): in since mode without a target branch, when no default
\* branch can be determined the call fails with an error raised to the
\* caller, and no comparison is fetched.
C12_UnresolvedHeadRaises ==
    UnresolvedHead =>
        /\ "compare" \notin OpsOf(requests)
        /\ procPc = "raised"
        /\ proc_result.kind = "raise"

\* C12 (amended): in since mode without a target branch, when no default
\* branch can be determined the call ends at once without a changelog and
\* without a comparison fetch: it returns None (no exception) when the
\* repository data has no default branch, and the only exception it raises
\* is the transport error of the lookup itself.
C12_UnresolvedHeadReturnsNone ==
    UnresolvedHead =>
        /\ "compare" \notin OpsOf(requests)
        /\ Len(requests) = 1
        /\ \/ procPc = "returned" /\ proc_result = ReturnNone
           \/ /\ procPc = "raised"
              /\ proc_result.kind = "raise"
              /\ proc_result.error \in TransportErrors

C12_Witness ==
    /\ UnresolvedHead
    /\ procPc = "returned"
    /\ proc_result = ReturnNone
    /\ requests = <<Request("default_branch", None, None, None)>>

(***************************************************************************)
(* Claims about generate, checked under Spec                               *)
(***************************************************************************)
MdSuffix == <<".", "m", "d">>

C9_DeployWithoutToken ==
    (pc # "idle" /\ ~args.local /\ ~Truthy(args.token)) =>
        /\ requests = <<>>
        /\ proc_calls = 0
        /\ files_written = <<>>
        /\ pc \in {"validate", "prerun", "done"}
        /\ pc = "done" => exit_code = Some(1)

C9_Witness ==
    /\ pc = "done"
    /\ ~args.local
    /\ ~Truthy(args.token)
    /\ ~MissingTags(args)
    /\ exit_code = Some(1)

\* the call of process_repository is over and generate has its result
Processed == ProcessFinished /\ pc \notin {"processing", "local_processing"}

DispatchFailed ==
    /\ dispatch_response # None
    /\ (dispatch_response[1].error # "" \/ dispatch_response[1].status \notin 200..299)

NameInDir(path) == SubSeq(path, 3, Len(path))
CharsOf(chars) == {chars[k] : k \in 1..Len(chars)}

Failing(answer) == answer.error # "" \/ answer.status \in 400..599

WellFormedRepo(repo) ==
    /\ Cardinality({i \in 1..Len(repo) : repo[i] = "/"}) = 1
    /\ Head(repo) # "/"
    /\ repo[Len(repo)] # "/"

\* C20 (as claimed): the constructor succeeds exactly for the strings with
\* one '/' and a non-empty owner and name, which become owner and repo_name;
\* every other string is rejected with the invalid-format error.
C20_RepositoryRef ==
    /\ ghPc = "rejected" =>
          /\ ~WellFormedRepo(gh_repo)
          /\ client = None
          /\ gh_result.kind = "raise"
    /\ ghPc \in {"ready", "paging", "done"} =>
          /\ WellFormedRepo(gh_repo)
          /\ client # None
          /\ client[1].owner \o <<"/">> \o client[1].repo_name = gh_repo

\* the tags of the pages that the first n requests were answered with, in
\* the order of the requests
RECURSIVE Gathered(_, _)
Gathered(log, n) ==
    IF n = 0 THEN <<>>
    ELSE Gathered(log, n - 1) \o
         (IF log[n].answer.body = None THEN <<>> ELSE log[n].answer.body[1])

\* a page after which get_tags asks for another one
Continues(answer) ==
    /\ ~Failing(answer)
    /\ answer.valid
    /\ answer.body # None
    /\ answer.body[1] # <<>>
    /\ answer.next # None
    /\ Head(answer.next[1]) = BASE_URL
    /\ Tail(answer.next[1]) # <<>>

\* a page that ends the loop as the claim lists them: it is empty, has no
\* 'next' link, or has one outside the API base URL
LastPage(answer) ==
    \/ answer.body[1] = <<>>
    \/ answer.next = None
    \/ Head(answer.next[1]) # BASE_URL

StepRank(op) ==
    IF op = "compare" THEN 2 ELSE IF op = "generate" THEN 4 ELSE 5

\* the moves of process_repository from one step to the next: construct,
\* resolve, fetch, assemble, generate, and the ends of the call
StepOrder ==
    { <<"idle", "start">>, <<"start", "constructed">>, <<"start", "raised">>,
      <<"constructed", "resolved">>,
      <<"resolved", "fetched">>, <<"resolved", "returned">>, <<"resolved", "raised">>,
      <<"fetched", "formatted">>,
      <<"formatted", "returned">>, <<"formatted", "raised">> }

Dispatched(log) == "dispatch" \in OpsOf(log)

\* what a run of generate has done so far is in the order of the steps
OrderedSoFar ==
    (pc # "idle") =>
        /\ \A i, j \in 1..Len(requests) :
              i < j => StepRank(requests[i].op) < StepRank(requests[j].op)
        /\ \A i \in 1..Len(requests) :
              requests[i].op = "compare" =>
                  /\ base_ref = args.from_tag /\ head_ref = args.to_tag
                  /\ requests[i].base = base_ref /\ requests[i].head = head_ref
        /\ llm_input_data # <<>> =>
              (comparison_data # None /\ "compare" \in OpsOf(requests))
        /\ "generate" \in OpsOf(requests) => llm_input_data # <<>>
        /\ (files_written # <<>> \/ Dispatched(requests)) =>
              /\ pc = "done"
              /\ proc_calls = 1
              /\ procPc = "returned"
              /\ proc_result.kind # "raise"
        /\ files_written # <<>> =>
              /\ "generate" \in OpsOf(requests)
              /\ proc_result.kind = "value"
              /\ files_written[1].content = proc_result.content
        /\ (procPc = "raised" /\ pc \notin {"processing", "local_processing"}) =>
              /\ proc_result.kind = "raise"
              /\ pc = "done"
              /\ exit_code = Some(1)
              /\ files_written = <<>>
              /\ ~Dispatched(requests)

\* one step of a run: process_repository moves along the order of its steps
\* and only before any write or dispatch; the write and the dispatch are made
\* when it has returned without raising, and leave it where it is
OrderedStep ==
    /\ (procPc' # procPc) =>
          /\ <<procPc, procPc'>> \in StepOrder
          /\ files_written = <<>>
          /\ ~Dispatched(requests)
    /\ (files_written' # files_written \/ (Dispatched(requests') /\ ~Dispatched(requests))) =>
          /\ procPc = "returned"
          /\ procPc' = procPc
          /\ proc_result.kind # "raise"
          /\ proc_result' = proc_result

PassesValidation(a) ==
    /\ Truthy(a.from_tag)
    /\ Truthy(a.to_tag)
    /\ (a.local \/ Truthy(a.token))

\* --local together with --output
LocalWithOutput(a) == a.local /\ Truthy(a.output)

Patchless(fs, n) ==
    Cardinality({k \in 1..n : Get(fs[k], "patch", <<>>) = <<>>})

\* C24: for a file list of at most 50 entries, 50 included, every file is
\* rendered in input order and there is no omission line; a rendered file
\* whose patch has at most 1000 characters, 1000 included, carries the whole
\* patch inside the diff fence and no truncation marker; a file without
\* patch, or with an empty one, is rendered with the "No diff provided" note
\* and fills one of the 50 places like any other file.
C24_NoTruncationWithinLimits ==
    fmtPc = "done" =>
        LET q == FilePart(prompt_content)
            e == FileEntries(q)
            shown == IF Len(files) < MAX_FILES_IN_PROMPT
                     THEN Len(files) ELSE MAX_FILES_IN_PROMPT
        IN  /\ Len(files) <= MAX_FILES_IN_PROMPT =>
                  /\ Len(e) = Len(files)
                  /\ PosOf(q, OmitPrefix) = {}
                  /\ PosOf(q, OmitSuffix) = {}
            /\ Len(e) = shown
            /\ \A k \in 1..Len(e) :
                  LET patch == Get(files[k], "patch", <<>>)
                      rendered == SubSeq(e[k], 6, Len(e[k]))
                  IN  /\ e[k][2] = Get(files[k], "filename", "Unknown file")
                      /\ e[k][4] = Get(files[k], "status", "unknown")
                      /\ (patch # <<>> /\ Len(patch) <= MAX_PATCH_LENGTH) =>
                            /\ rendered = <<FenceOpen>> \o patch \o <<FenceClose, "\n">>
                            /\ PosOf(e[k], TruncMarker) = {}
                      /\ patch = <<>> => rendered = <<NoDiffNote, "\n">>
            /\ Cardinality(PosOf(q, NoDiffNote)) = Patchless(files, shown)

\* fifty files, the last with a patch of exactly 1000 characters and some
\* without patch: all rendered, nothing cut
C24_Witness ==
    /\ fmtPc = "done"
    /\ Len(files) = MAX_FILES_IN_PROMPT
    /\ Len(Get(files[MAX_FILES_IN_PROMPT], "patch", <<>>)) = MAX_PATCH_LENGTH
    /\ Patchless(files, MAX_FILES_IN_PROMPT) > 0
    /\ Len(FileEntries(FilePart(prompt_content))) = MAX_FILES_IN_PROMPT
    /\ PosOf(prompt_content, TruncMarker) = {}
    /\ PosOf(prompt_content, OmitPrefix) = {}

====
